---- MODULE Spec2Model ----
(***************************************************************************)
(* A model of mail2elasticsearch: the batch scheduler of main (worker pool, *)
(* unbuffered task channel, WaitGroup, bulk processor), the content-       *)
(* addressed attachment store at the end of jsonifyMsg, and the body       *)
(* decoding stages of jsonifyMsg / decodeCharset.                           *)
(***************************************************************************)
EXTENDS Integers, Sequences, FiniteSets, TLC

\* ------------------------------------------------------------------ bounds
\* Size of the worker pool (runtime.GOMAXPROCS(0)) explored by the model.
NumWorkers == 2
\* Number of path entries (arguments and walked entries) the enumerator meets.
MaxEntries == 3

\* Number of attachment-store calls made in one run of the store model.
MaxCalls == 3

Workers == 1..NumWorkers
Tasks == 1..MaxEntries

VARIABLES
    \* ---- batch scheduler (main, else branch)
    mainpc,      \* position of the main goroutine
    walking,     \* TRUE while inside filepath.Walk of a directory argument
    seen,        \* number of path entries met so far
    irregular,   \* a task was enqueued for an entry that is not a regular file
    wg,          \* sync.WaitGroup counter
    added,       \* number of wg.Add(1) calls: tasks are numbered 1..added
    wpc,         \* wpc[w]: position of worker goroutine w
    wtask,       \* wtask[w]: the task worker w received (0: none)
    outcome,     \* outcome[t]: "none" (running), "fail" (open, parse or
                 \* serialize failed), "ok" (all three succeeded), "panic"
    submitted,   \* submitted[t]: number of proc.Add calls made for task t
    completed,   \* completed[t]: number of wg.Done calls made for task t
    sinkClosed,  \* proc.Close() has run
    panicked,    \* a goroutine panicked: the process is gone
    enumErr,     \* the enumerator met a stat or walk error
    \* ---- attachment store (jsonifyMsg, from the file: label on)
    files,       \* files[name]: content of the file of that name, or NoFile
    store,       \* store[w]: the store call worker w is in, or last made
    calls,       \* number of store calls begun
    created,     \* created[name]: times a commit made the final path appear
    crashed,     \* a store call dereferenced a nil file
    \* ---- one jsonifyMsg call on a parsed message
    tshape,      \* the message tree: child parts and sub-message of each node
    tpos,        \* index of the next step of the walk
    tdoc,        \* tdoc[n]: the JMessage built for node n
    tlast,       \* inputs and outcomes of the latest body resolution
    present,     \* final store paths that hold a file
    tpanic,      \* jsonifyMsg panicked
    \* ---- one call of a header helper (headers.go)
    hfun,        \* the helper called: "date" or "addr" ("none": no call)
    hin,         \* its argument vals, a list of strings
    hout,        \* its result
    hpc,         \* "call" before the helper ran, "done" after
    \* ---- mode selection of main
    doInit,      \* the -init flag
    args,        \* flag.Args(): the path arguments
    cpc,         \* position of main in the mode selection
    cmode,       \* the branch taken: "init", "stdin" or "batch" ("none" yet)
    indexCreated, \* number of successful CreateIndex calls
    indexed,     \* number of successful synchronous Index calls
    handed,      \* the arguments the batch loop has taken up, in order
    did          \* the steps of the stdin branch that ran, with their outcome

schedVars == <<mainpc, walking, seen, irregular, wg, added, wpc, wtask, outcome,
               submitted, completed, sinkClosed, panicked, enumErr>>

storeVars == <<files, store, calls, created, crashed>>

treeVars == <<tshape, tpos, tdoc, tlast, present, tpanic>>

hdrVars == <<hfun, hin, hout, hpc>>

cliVars == <<doInit, args, cpc, cmode, indexCreated, indexed, handed, did>>

vars == <<schedVars, storeVars, treeVars, hdrVars, cliVars>>

\* ------------------------------------------------------- batch scheduler

\* The process is alive: main has not returned, log.Fatalw has not called
\* os.Exit, and no goroutine has panicked.
Running == mainpc \notin {"exit", "fatal"} /\ ~panicked

SchedInit ==
    /\ mainpc = "enum"
    /\ walking = FALSE
    /\ seen = 0
    /\ irregular = FALSE
    /\ wg = 0
    /\ added = 0
    /\ wpc = [w \in Workers |-> "recv"]
    /\ wtask = [w \in Workers |-> 0]
    /\ outcome = [t \in Tasks |-> "none"]
    /\ submitted = [t \in Tasks |-> 0]
    /\ completed = [t \in Tasks |-> 0]
    /\ sinkClosed = FALSE
    /\ panicked = FALSE
    /\ enumErr = FALSE

\* wg.Add(1) followed by the (blocking) send on the unbuffered channel.
EnqueueWithoutAdd ==
    /\ wg' = wg
    /\ added' = added + 1
    /\ mainpc' = "send"

Enqueue ==
    /\ wg' = wg + 1
    /\ added' = added + 1
    /\ mainpc' = "send"

\* log.Fatalw: os.Exit(1), no deferred call runs.
FatalwLogsOnly ==
    /\ mainpc' = mainpc
    /\ enumErr' = TRUE

Fatalw ==
    /\ mainpc' = "fatal"
    /\ enumErr' = TRUE

\* for _, filename := range flag.Args(): os.Stat of the next argument.
MainArg ==
    /\ UNCHANGED <<storeVars, treeVars, hdrVars, cliVars>>
    /\ Running /\ mainpc = "enum" /\ ~walking /\ seen < MaxEntries
    /\ seen' = seen + 1
    /\ \E kind \in {"staterr", "dir", "regular", "other"} :
         CASE kind = "staterr" ->
                /\ Fatalw
                /\ UNCHANGED <<walking, irregular, wg, added>>
           [] kind = "dir" ->
                /\ walking' = TRUE
                /\ UNCHANGED <<mainpc, irregular, wg, added, enumErr>>
           [] OTHER ->
                /\ Enqueue
                /\ irregular' = (irregular \/ kind # "regular")
                /\ UNCHANGED <<walking, enumErr>>
    /\ UNCHANGED <<wpc, wtask, outcome, submitted, completed, sinkClosed, panicked>>

\* The filepath.Walk callback on the next entry under a directory argument.
MainWalkEntry ==
    /\ UNCHANGED <<storeVars, treeVars, hdrVars, cliVars>>
    /\ Running /\ mainpc = "enum" /\ walking /\ seen < MaxEntries
    /\ seen' = seen + 1
    /\ \E kind \in {"walkerr", "staterr", "dir", "regular", "other"} :
         CASE kind \in {"walkerr", "staterr"} ->
                /\ Fatalw
                /\ UNCHANGED <<walking, wg, added>>
           [] kind = "regular" ->
                /\ Enqueue
                /\ UNCHANGED <<walking, enumErr>>
           [] OTHER ->
                UNCHANGED <<mainpc, walking, wg, added, enumErr>>
    /\ UNCHANGED <<irregular, wpc, wtask, outcome, submitted, completed,
                   sinkClosed, panicked>>

\* filepath.Walk returns nil: back to the argument loop.
MainWalkEnd ==
    /\ UNCHANGED <<storeVars, treeVars, hdrVars, cliVars>>
    /\ Running /\ mainpc = "enum" /\ walking
    /\ walking' = FALSE
    /\ UNCHANGED <<mainpc, seen, irregular, wg, added, wpc, wtask, outcome,
                   submitted, completed, sinkClosed, panicked, enumErr>>

\* The argument loop ends: main reaches wg.Wait().
MainEnumEnd ==
    /\ UNCHANGED <<storeVars, treeVars, hdrVars, cliVars>>
    /\ Running /\ mainpc = "enum" /\ ~walking
    /\ mainpc' = "wait"
    /\ UNCHANGED <<walking, seen, irregular, wg, added, wpc, wtask, outcome,
                   submitted, completed, sinkClosed, panicked, enumErr>>

\* filename := <-tasks: a worker waits at the receive on its own, whatever
\* the other workers are doing.
CanReceiveWhenAllIdle(w) == \A v \in Workers : wpc[v] = "recv"
CanReceiveWhileBusy(w) == TRUE
CanReceive(w) == wpc[w] = "recv"

\* tasks <- path meets filename := <-tasks: the channel is unbuffered, so the
\* send completes exactly when a worker receives.
WorkerRecv(w) ==
    /\ UNCHANGED <<storeVars, treeVars, hdrVars, cliVars>>
    /\ Running /\ mainpc = "send" /\ CanReceive(w)
    /\ mainpc' = "enum"
    /\ wpc' = [wpc EXCEPT ![w] = "open"]
    /\ wtask' = [wtask EXCEPT ![w] = added]
    /\ UNCHANGED <<walking, seen, irregular, wg, added, outcome, submitted,
                   completed, sinkClosed, panicked, enumErr>>

\* Where a worker goes when open, process or Marshal fails: goto done.
OnErrorContinue == "recv"
OnErrorSubmit == "add"
OnError == "done"

\* file, err := os.Open(filename)
WorkerOpen(w) ==
    /\ UNCHANGED <<storeVars, treeVars, hdrVars, cliVars>>
    /\ Running /\ wpc[w] = "open"
    /\ \E ok \in BOOLEAN :
         IF ok
         THEN /\ wpc' = [wpc EXCEPT ![w] = "process"]
              /\ UNCHANGED outcome
         ELSE /\ wpc' = [wpc EXCEPT ![w] = OnError]
              /\ outcome' = [outcome EXCEPT ![wtask[w]] = "fail"]
    /\ UNCHANGED <<mainpc, walking, seen, irregular, wg, added, wtask, submitted,
                   completed, sinkClosed, panicked, enumErr>>

\* Where a worker goes when process returned a Document: on to Marshal.
AfterProcessSubmits == "add"
AfterProcess == "marshal"

\* jmsg, err = process(bufio.NewReader(file), log): email.ParseMessage, then
\* jsonifyMsg, which returns no error but can panic (decodeCharset dereferences
\* a nil detection result).
WorkerProcess(w) ==
    /\ UNCHANGED <<storeVars, treeVars, hdrVars, cliVars>>
    /\ Running /\ wpc[w] = "process"
    /\ \E res \in {"ok", "parsefail", "panic"} :
         CASE res = "ok" ->
                /\ wpc' = [wpc EXCEPT ![w] = AfterProcess]
                /\ UNCHANGED <<outcome, panicked>>
           [] res = "parsefail" ->
                /\ wpc' = [wpc EXCEPT ![w] = OnError]
                /\ outcome' = [outcome EXCEPT ![wtask[w]] = "fail"]
                /\ UNCHANGED panicked
           [] OTHER ->
                /\ panicked' = TRUE
                /\ outcome' = [outcome EXCEPT ![wtask[w]] = "panic"]
                /\ UNCHANGED wpc
    /\ UNCHANGED <<mainpc, walking, seen, irregular, wg, added, wtask, submitted,
                   completed, sinkClosed, enumErr>>

\* j, err = easyjson.Marshal(*jmsg)
WorkerMarshal(w) ==
    /\ UNCHANGED <<storeVars, treeVars, hdrVars, cliVars>>
    /\ Running /\ wpc[w] = "marshal"
    /\ \E ok \in BOOLEAN :
         IF ok
         THEN /\ wpc' = [wpc EXCEPT ![w] = "add"]
              /\ outcome' = [outcome EXCEPT ![wtask[w]] = "ok"]
         ELSE /\ wpc' = [wpc EXCEPT ![w] = OnError]
              /\ outcome' = [outcome EXCEPT ![wtask[w]] = "fail"]
    /\ UNCHANGED <<mainpc, walking, seen, irregular, wg, added, wtask, submitted,
                   completed, sinkClosed, panicked, enumErr>>

\* proc.Add(elastic.NewBulkIndexRequest()...)
WorkerAdd(w) ==
    /\ UNCHANGED <<storeVars, treeVars, hdrVars, cliVars>>
    /\ Running /\ wpc[w] = "add"
    /\ submitted' = [submitted EXCEPT ![wtask[w]] = @ + 1]
    /\ wpc' = [wpc EXCEPT ![w] = "done"]
    /\ UNCHANGED <<mainpc, walking, seen, irregular, wg, added, wtask, outcome, completed,
                   sinkClosed, panicked, enumErr>>

\* done: wg.Done(), then back to the receive. A negative counter panics.
WorkerDone(w) ==
    /\ UNCHANGED <<storeVars, treeVars, hdrVars, cliVars>>
    /\ Running /\ wpc[w] = "done"
    /\ wg' = wg - 1
    /\ panicked' = (wg - 1 < 0)
    /\ completed' = [completed EXCEPT ![wtask[w]] = @ + 1]
    /\ wpc' = [wpc EXCEPT ![w] = "recv"]
    /\ wtask' = [wtask EXCEPT ![w] = 0]
    /\ UNCHANGED <<mainpc, walking, seen, irregular, added, outcome, submitted,
                   sinkClosed, enumErr>>

\* wg.Wait() returns when the counter is zero.
WaitReturnsEarly(c) == c <= 1
WaitReturns(c) == c = 0

MainWait ==
    /\ UNCHANGED <<storeVars, treeVars, hdrVars, cliVars>>
    /\ Running /\ mainpc = "wait" /\ WaitReturns(wg)
    /\ mainpc' = "close"
    /\ UNCHANGED <<walking, seen, irregular, wg, added, wpc, wtask, outcome,
                   submitted, completed, sinkClosed, panicked, enumErr>>

\* main returns: the deferred proc.Close() runs, then the process exits.
MainClose ==
    /\ UNCHANGED <<storeVars, treeVars, hdrVars, cliVars>>
    /\ Running /\ mainpc = "close"
    /\ sinkClosed' = TRUE
    /\ mainpc' = "exit"
    /\ UNCHANGED <<walking, seen, irregular, wg, added, wpc, wtask, outcome,
                   submitted, completed, panicked, enumErr>>

MainStep ==
    \/ MainArg
    \/ MainWalkEntry
    \/ MainWalkEnd
    \/ MainEnumEnd
    \/ MainWait
    \/ MainClose

WorkerStep(w) ==
    \/ WorkerRecv(w)
    \/ WorkerOpen(w)
    \/ WorkerProcess(w)
    \/ WorkerMarshal(w)
    \/ WorkerAdd(w)
    \/ WorkerDone(w)

SchedNext ==
    \/ MainArg
    \/ MainWalkEntry
    \/ MainWalkEnd
    \/ MainEnumEnd
    \/ MainWait
    \/ MainClose
    \/ \E w \in Workers : WorkerRecv(w)
    \/ \E w \in Workers : WorkerOpen(w)
    \/ \E w \in Workers : WorkerProcess(w)
    \/ \E w \in Workers : WorkerMarshal(w)
    \/ \E w \in Workers : WorkerAdd(w)
    \/ \E w \in Workers : WorkerDone(w)

\* ------------------------------------------------------- attachment store

\* Bodies handed to the store by the concurrent callers.
Payloads == {<<1>>, <<1, 2>>, <<2>>}

\* blake2b.Sum256(msg.Body): a function of the bytes alone; collision
\* resistance is modelled by a bytewise bijection (7 is invertible mod 256).
Sum256(body) == [i \in 1..Len(body) |-> ((7 * body[i]) + 3) % 256]

\* filepath.Join(*attachdir, hex.EncodeToString(hash[:])): names are byte
\* sequences, 0 standing for the attachment directory prefix.
StorePath(body) == <<0>> \o Sum256(body)

\* safefile's temporary name: the final directory plus a fresh random name,
\* opened with O_EXCL, so private to the call that created it.
TempNameInPlace(w, path) == path
TempNameShared(w, path) == <<0, -1>>
TempName(w, path) == <<0, -1, w>>

FinalNames == {StorePath(b) : b \in Payloads}
Names == FinalNames \cup {TempName(w, StorePath(b)) : w \in Workers, b \in Payloads}

\* The content of a name that holds no file (no byte is negative).
NoFile == <<-1>>

NoCall == [pc |-> "idle", body |-> <<>>, path |-> <<>>, had |-> FALSE,
           saw |-> "none", n |-> 0, err |-> FALSE, commits |-> 0]

\* The store before any call of this run: the directory holds the complete
\* files of earlier runs (here: of the payloads in `old`).
StoreStart(old) ==
    /\ files = [name \in Names |->
                  IF \E b \in old : name = StorePath(b)
                  THEN CHOOSE b \in old : name = StorePath(b)
                  ELSE NoFile]
    /\ store = [w \in Workers |-> NoCall]
    /\ calls = 0
    /\ created = [name \in FinalNames |-> 0]
    /\ crashed = FALSE

StoreIdle == StoreStart({})

StoreInit == \E old \in SUBSET Payloads : StoreStart(old)

\* hash := blake2b.Sum256(msg.Body); path := ...; result.Attachment = path
StoreBegin(w) ==
    /\ UNCHANGED <<schedVars, treeVars, hdrVars, cliVars>>
    /\ ~crashed /\ store[w].pc = "idle" /\ calls < MaxCalls
    /\ calls' = calls + 1
    /\ \E body \in Payloads :
         store' = [store EXCEPT ![w] =
                     [pc |-> "stat", body |-> body, path |-> StorePath(body),
                      had |-> files[StorePath(body)] # NoFile,
                      saw |-> "none", n |-> 0, err |-> FALSE, commits |-> 0]]
    /\ UNCHANGED <<files, created, crashed>>

\* os.IsNotExist(err) for the error os.Stat returned.
IsNotExistAlways(statres) == TRUE
IsNotExist(statres) == statres = "notexist"

\* if _, err := os.Stat(path); !os.IsNotExist(err) { return result }
\* Stat of a present file gives nil or another error (say EACCES).
StoreStat(w) ==
    /\ UNCHANGED <<schedVars, treeVars, hdrVars, cliVars>>
    /\ ~crashed /\ store[w].pc = "stat"
    /\ \E statres \in (IF files[store[w].path] # NoFile
                       THEN {"nil", "eacces"} ELSE {"notexist"}) :
         store' = [store EXCEPT ![w].saw = statres,
                                ![w].pc = IF IsNotExist(statres)
                                          THEN "create" ELSE "idle"]
    /\ UNCHANGED <<files, calls, created, crashed>>

\* What follows a failed safefile.Create: return result (TRUE), or going on
\* with the nil file (FALSE).
ReturnsOnCreateErrorNot == FALSE
ReturnsOnCreateError == TRUE

\* f, err := safefile.Create(path, 0444); defer f.Close()
StoreCreate(w) ==
    /\ UNCHANGED <<schedVars, treeVars, hdrVars, cliVars>>
    /\ ~crashed /\ store[w].pc = "create"
    /\ \E ok \in BOOLEAN :
         IF ok
         THEN /\ files' = [files EXCEPT ![TempName(w, store[w].path)] = <<>>]
              /\ store' = [store EXCEPT ![w].pc =
                             IF Len(store[w].body) = 0 THEN "commit" ELSE "write"]
              /\ UNCHANGED crashed
         ELSE /\ store' = [store EXCEPT ![w].err = TRUE, ![w].pc = "idle"]
              /\ crashed' = ~ReturnsOnCreateError
              /\ UNCHANGED files
    /\ UNCHANGED <<calls, created>>

\* _, err = f.Write(msg.Body): the bytes reach the file one after another, and
\* the write can fail after any of them.
StoreWrite(w) ==
    /\ UNCHANGED <<schedVars, treeVars, hdrVars, cliVars>>
    /\ ~crashed /\ store[w].pc = "write"
    /\ LET tmp == TempName(w, store[w].path)
           k == store[w].n + 1
       IN \E ok \in BOOLEAN :
            IF ok /\ files[tmp] # NoFile
            THEN /\ files' = [files EXCEPT ![tmp] = Append(@, store[w].body[k])]
                 /\ store' = [store EXCEPT ![w].n = k,
                                ![w].pc = IF k = Len(store[w].body)
                                          THEN "commit" ELSE "write"]
            ELSE /\ store' = [store EXCEPT ![w].err = TRUE, ![w].pc = "close"]
                 /\ UNCHANGED files
    /\ UNCHANGED <<calls, created, crashed>>

\* err = f.Commit(): sync, close, then rename the temporary file onto the
\* final path (rename replaces an existing file atomically).
StoreCommit(w) ==
    /\ UNCHANGED <<schedVars, treeVars, hdrVars, cliVars>>
    /\ ~crashed /\ store[w].pc = "commit"
    /\ LET tmp == TempName(w, store[w].path)
           path == store[w].path
       IN \E ok \in BOOLEAN :
            IF ok /\ files[tmp] # NoFile
            THEN /\ files' = IF tmp = path THEN files
                             ELSE [files EXCEPT ![path] = files[tmp], ![tmp] = NoFile]
                 /\ created' = [created EXCEPT ![path] =
                                  IF files[path] = NoFile THEN @ + 1 ELSE @]
                 /\ store' = [store EXCEPT ![w].commits = @ + 1, ![w].pc = "idle"]
            ELSE /\ store' = [store EXCEPT ![w].err = TRUE, ![w].pc = "close"]
                 /\ UNCHANGED <<files, created>>
    /\ UNCHANGED <<calls, crashed>>

\* The deferred f.Close() of an uncommitted file removes the temporary file.
StoreClose(w) ==
    /\ UNCHANGED <<schedVars, treeVars, hdrVars, cliVars>>
    /\ ~crashed /\ store[w].pc = "close"
    /\ files' = [files EXCEPT ![TempName(w, store[w].path)] = NoFile]
    /\ store' = [store EXCEPT ![w].pc = "idle"]
    /\ UNCHANGED <<calls, created, crashed>>

StoreNext ==
    \/ \E w \in Workers : StoreBegin(w)
    \/ \E w \in Workers : StoreStat(w)
    \/ \E w \in Workers : StoreCreate(w)
    \/ \E w \in Workers : StoreWrite(w)
    \/ \E w \in Workers : StoreCommit(w)
    \/ \E w \in Workers : StoreClose(w)

\* ------------------------------------------------ content decoding (pure)
\* Bytes are numbers 0..255; a body, a text and a file name are sequences.

\* fromHex of mime/quotedprintable: 0-9, A-F and (leniently) a-f.
IsHex(b) == b \in (48..57) \cup (65..70) \cup (97..102)
FromHex(b) == IF b <= 57 THEN b - 48 ELSE IF b <= 70 THEN b - 55 ELSE b - 87

\* One line of quoted-printable after its soft line break was stripped:
\* "=XY" is a byte, any other "=" is an error, and so is an unescaped control
\* byte; bytes from 0x80 on pass (the reader is lenient). On an error `out`
\* holds what was decoded before it.
RECURSIVE QPLine(_)
QPLine(s) ==
    IF s = <<>> THEN [err |-> FALSE, out |-> <<>>]
    ELSE IF s[1] = 61
    THEN IF Len(s) >= 3 /\ IsHex(s[2]) /\ IsHex(s[3])
         THEN LET r == QPLine(SubSeq(s, 4, Len(s)))
              IN [err |-> r.err, out |-> <<16 * FromHex(s[2]) + FromHex(s[3])>> \o r.out]
         ELSE [err |-> TRUE, out |-> <<>>]
    ELSE IF (s[1] < 32 /\ s[1] \notin {9, 10, 13}) \/ s[1] = 127
    THEN [err |-> TRUE, out |-> <<>>]
    ELSE LET r == QPLine(Tail(s))
         IN [err |-> r.err, out |-> <<s[1]>> \o r.out]

\* ioutil.ReadAll(quotedprintable.NewReader(...)) on a body of one line with
\* no trailing white space: a final "=" after other bytes is a soft line
\* break and is dropped, a lone "=" is an error.
QPDecode(body) ==
    IF body = <<61>> THEN [err |-> TRUE, out |-> <<>>]
    ELSE IF Len(body) >= 2 /\ body[Len(body)] = 61
    THEN QPLine(SubSeq(body, 1, Len(body) - 1))
    ELSE QPLine(body)

\* The rune mapping of normalizeForBase64: the byte kept, replaced, or -1.
NormalizeRune(r) ==
    IF r \in (48..57) \cup (65..90) \cup (97..122) \cup {43, 47, 61} THEN r
    ELSE IF r \in {44, 95, 58} THEN 47
    ELSE IF r = 45 THEN 43
    ELSE -1

RECURSIVE normalizeForBase64(_)
normalizeForBase64(body) ==
    IF body = <<>> THEN <<>>
    ELSE LET r == NormalizeRune(body[1])
         IN (IF r = -1 THEN <<>> ELSE <<r>>) \o normalizeForBase64(Tail(body))

\* The value of a character of the standard base64 alphabet (-1: none).
B64Val(c) ==
    IF c \in 65..90 THEN c - 65
    ELSE IF c \in 97..122 THEN c - 71
    ELSE IF c \in 48..57 THEN c + 4
    ELSE IF c = 43 THEN 62
    ELSE IF c = 47 THEN 63
    ELSE -1

\* base64.StdEncoding.DecodedLen(n)
DecodedLen(n) == (n \div 4) * 3

\* One quantum of four characters with the values v1..v4 of its characters:
\* the bytes it yields, `last` telling whether padding is allowed in it.
QuadBytes(v1, v2, v3, v4, q, last) ==
    LET word == v1 * 262144 + v2 * 4096
                  + (IF v3 < 0 THEN 0 ELSE v3) * 64 + (IF v4 < 0 THEN 0 ELSE v4)
    IN IF v1 < 0 \/ v2 < 0 THEN [err |-> TRUE, out |-> <<>>]
       ELSE IF v3 >= 0 /\ v4 >= 0
       THEN [err |-> FALSE, out |-> <<word \div 65536, (word \div 256) % 256, word % 256>>]
       ELSE IF last /\ q[3] = 61 /\ q[4] = 61
       THEN [err |-> FALSE, out |-> <<word \div 65536>>]
       ELSE IF last /\ v3 >= 0 /\ q[4] = 61
       THEN [err |-> FALSE, out |-> <<word \div 65536, (word \div 256) % 256>>]
       ELSE [err |-> TRUE, out |-> <<>>]
B64Quad(q, last) ==
    QuadBytes(B64Val(q[1]), B64Val(q[2]), B64Val(q[3]), B64Val(q[4]), q, last)

\* The decoded bytes of padded standard base64 (no white space allowed).
RECURSIVE B64Bytes(_)
B64Bytes(src) ==
    IF src = <<>> THEN [err |-> FALSE, out |-> <<>>]
    ELSE IF Len(src) < 4 THEN [err |-> TRUE, out |-> <<>>]
    ELSE LET q == B64Quad(SubSeq(src, 1, 4), Len(src) = 4)
             r == B64Bytes(SubSeq(src, 5, Len(src)))
         IN IF q.err THEN q
            ELSE [err |-> r.err, out |-> q.out \o r.out]

\* n, err := base64.StdEncoding.Decode(decBody, unspacedBody), decBody being
\* make([]byte, DecodedLen(len(unspacedBody))): `out` is decBody afterwards,
\* the n decoded bytes followed by the untouched zero bytes.
ZeroFilled(r, len) ==
    [err |-> r.err, n |-> Len(r.out),
     out |-> r.out \o [i \in 1..(len - Len(r.out)) |-> 0]]
Base64Decode(src) == ZeroFilled(B64Bytes(src), DecodedLen(Len(src)))

\* msg.Body after a decoding attempt r of body: it is assigned only after a
\* successful decode, an error jumps to file: with msg.Body as it was.
KeepsPartial(r, body) == [fail |-> r.err, body |-> r.out]
KeepsOriginal(r, body) == [fail |-> r.err, body |-> IF r.err THEN body ELSE r.out]

\* //// Body Transfer-Encoding: msg.Body after the stage, and whether the code
\* jumped to file:.
TransferStage(cte, body) ==
    IF cte = "quoted-printable" THEN KeepsOriginal(QPDecode(body), body)
    ELSE IF cte = "base64"
    THEN KeepsOriginal(Base64Decode(normalizeForBase64(body)), body)
    ELSE [fail |-> FALSE, body |-> body]

\* Content-Type values of the model, and what the code observes of them.
CTypes == {"", "text/plain", "text/html", "text/plain; charset=windows-1252",
           "text/plain; charset=x-unknown", "text/html; charset=", "image/png"}

\* strings.HasPrefix(ctype, "text")
HasPrefixText(ctype) == ctype \notin {"", "image/png"}

\* strings.Contains(s, "html")
ContainsHtml(s) == s \in {"text/html", "text/html; charset="}

\* mime.ParseMediaType(ctype): an empty parameter value is an error.
ParseMediaType(ctype) ==
    CASE ctype = "text/plain" -> [err |-> FALSE, mediatype |-> "text/plain", charset |-> ""]
      [] ctype = "text/html" -> [err |-> FALSE, mediatype |-> "text/html", charset |-> ""]
      [] ctype = "text/plain; charset=windows-1252" ->
            [err |-> FALSE, mediatype |-> "text/plain", charset |-> "windows-1252"]
      [] ctype = "text/plain; charset=x-unknown" ->
            [err |-> FALSE, mediatype |-> "text/plain", charset |-> "x-unknown"]
      [] ctype = "image/png" -> [err |-> FALSE, mediatype |-> "image/png", charset |-> ""]
      [] OTHER -> [err |-> TRUE, mediatype |-> "", charset |-> ""]

\* Content-Disposition values, and strings.Contains(..., "attachment").
Dispositions == {"", "attachment; filename=a"}
ContainsAttachmentNever(disp) == FALSE
ContainsAttachment(disp) == disp = "attachment; filename=a"

\* Content-Transfer-Encoding values.
Encodings == {"", "quoted-printable", "base64"}

\* htmlindex.Get(charset) knows the name.
KnownCharsetAny(charset) == TRUE
KnownCharset(charset) == charset \in {"utf-8", "windows-1252"}

\* What chardet's DetectBest can return: no result (nil, NotDetectedError), or
\* a result naming a charset.
NotDetected == "(nil)"
Detections == {NotDetected, "utf-8", "windows-1252"}

\* enc.NewDecoder().Bytes(body) to UTF-8: ASCII is kept; windows-1252 maps a
\* byte from 0xA0 on to its two-byte UTF-8 form; utf-8 keeps a well-formed
\* two-byte sequence and replaces any other byte by U+FFFD.
RECURSIVE DecodeBytes(_, _)
DecodeBytes(charset, body) ==
    IF body = <<>> THEN <<>>
    ELSE IF body[1] < 128 THEN <<body[1]>> \o DecodeBytes(charset, Tail(body))
    ELSE IF charset = "windows-1252"
    THEN <<192 + (body[1] \div 64), 128 + (body[1] % 64)>> \o DecodeBytes(charset, Tail(body))
    ELSE IF body[1] \in 194..223 /\ Len(body) >= 2 /\ body[2] \in 128..191
    THEN <<body[1], body[2]>> \o DecodeBytes(charset, SubSeq(body, 3, Len(body)))
    ELSE <<239, 191, 189>> \o DecodeBytes(charset, Tail(body))

\* Which charset decodeCharset settles on when none is given: the code tests
\* `err != nil` where `err == nil` is meant, so a successful detection yields
\* "utf-8" and a failed one reads detenc.Charset of a nil result.
ResolveCharsetAsDocumented(charset, det) ==
    IF charset # "" THEN [panic |-> FALSE, charset |-> charset]
    ELSE IF det # NotDetected THEN [panic |-> FALSE, charset |-> det]
    ELSE [panic |-> FALSE, charset |-> "utf-8"]
ResolveCharset(charset, det) ==
    IF charset # "" THEN [panic |-> FALSE, charset |-> charset]
    ELSE IF det = NotDetected THEN [panic |-> TRUE, charset |-> ""]
    ELSE [panic |-> FALSE, charset |-> "utf-8"]

\* decodeCharset(charset, body, description, ishtml, log): det is what the
\* detector (html or text) returns for body, decfail whether the decoder
\* reports an error.
decodeCharset(charset, body, ishtml, det, decfail) ==
    LET rc == ResolveCharset(charset, det)
    IN [panic |-> rc.panic,
        charset |-> rc.charset,
        detector |-> IF charset # "" THEN "none" ELSE IF ishtml THEN "html" ELSE "text",
        err |-> ~rc.panic /\ (~KnownCharset(rc.charset) \/ decfail),
        decoded |-> IF rc.panic \/ ~KnownCharset(rc.charset) \/ decfail
                    THEN <<>> ELSE DecodeBytes(rc.charset, body)]

\* --------------------------------------------------- jsonifyMsg tree walk

\* The nodes of a parsed message; node 1 is the message itself.
TreeNodes == {1, 2, 3}

\* A message tree: parts[n] lists the child parts of n in order (0: a nil
\* entry), sub[n] is the embedded sub-message of n (0: none). A message of
\* one node is explored with every input of the model (wide), a message of
\* several nodes with the inputs of NarrowInputs.
Leaf == [n \in TreeNodes |-> <<>>]
NoSub == [n \in TreeNodes |-> 0]
Shapes ==
    { [parts |-> Leaf, sub |-> NoSub, wide |-> TRUE],
      [parts |-> [Leaf EXCEPT ![1] = <<2, 0, 3>>], sub |-> NoSub, wide |-> FALSE],
      [parts |-> [Leaf EXCEPT ![2] = <<3>>], sub |-> [NoSub EXCEPT ![1] = 2],
       wide |-> FALSE],
      [parts |-> [Leaf EXCEPT ![1] = <<2>>], sub |-> [NoSub EXCEPT ![1] = 3],
       wide |-> FALSE] }

\* The steps of jsonifyMsg on node n in execution order: its headers, its
\* sub-message, its non-nil parts in order, then its own body.
RECURSIVE Walk(_, _, _, _)
RECURSIVE WalkParts(_, _, _)
Walk(sh, n, parent, role) ==
    <<[ev |-> "enter", node |-> n, parent |-> parent, role |-> role]>>
      \o (IF sh.sub[n] # 0 THEN Walk(sh, sh.sub[n], n, "sub") ELSE <<>>)
      \o WalkParts(sh, n, sh.parts[n])
      \o <<[ev |-> "body", node |-> n, parent |-> parent, role |-> role]>>
WalkParts(sh, n, ps) ==
    IF ps = <<>> THEN <<>>
    ELSE (IF ps[1] # 0 THEN Walk(sh, ps[1], n, "part") ELSE <<>>)
           \o WalkParts(sh, n, Tail(ps))

Steps == Walk(tshape, 1, 0, "root")

\* Header values of the model and wordDecoder.DecodeHeader on them: an error
\* comes only from the charset reader (decodeReader), here for x-unknown.
HeaderValues == {"hi", "=?windows-1252?q?=41?=", "=?x-unknown?q?=41?="}
DecodeHeader(v) ==
    CASE v = "=?windows-1252?q?=41?=" -> [err |-> FALSE, dec |-> "A"]
      [] v = "=?x-unknown?q?=41?=" -> [err |-> TRUE, dec |-> ""]
      [] OTHER -> [err |-> FALSE, dec |-> v]

\* The loop over result.Header: a value that fails to decode is left as it is.
HeaderLoop(v) == IF DecodeHeader(v).err THEN v ELSE DecodeHeader(v).dec

\* Bodies of the model: "=41", "YQ==" and the single byte 0xE9.
Bodies == {<<61, 52, 49>>, <<89, 81, 61, 61>>, <<233>>}

\* The header fields and body a node can have.
WideInputs == [cte : Encodings, ctype : CTypes, disp : Dispositions, body : Bodies]
NarrowInputs == [cte : {"", "quoted-printable"}, ctype : {"text/plain", "image/png"},
                 disp : {""}, body : {<<89, 81, 61, 61>>}]
Inputs == IF tshape.wide THEN WideInputs ELSE NarrowInputs

\* What the attachment store does when the path is missing.
StoreResults == {"createfail", "writefail", "commitfail", "saved"}

\* The headers a node can have: its Message-Id (<<>>: the header is absent,
\* else a value of its own, <<n>>) and one other header value.
NodeHeaders(n) ==
    {[msgid |-> IF v = "=?windows-1252?q?=41?=" THEN <<>> ELSE <<n>>, v |-> v] :
       v \in HeaderValues}

\* Id: msg.Header.Get("Message-Id")
OwnId(msgid) == msgid

NoDoc == [state |-> "none", msgid |-> <<>>, id |-> <<>>, raw |-> "", hdr |-> "",
          parts |-> <<>>, sub |-> 0, text |-> <<>>, attach |-> <<>>]

NoLast == [node |-> 0, cte |-> "", ctype |-> "", disp |-> "", body |-> <<>>,
           det |-> NotDetected, tfail |-> FALSE, tried |-> FALSE,
           charset |-> "", detector |-> "none", ishtml |-> FALSE, cerr |-> FALSE,
           hashed |-> <<>>, exists |-> FALSE, storeres |-> "", wrote |-> NoFile]

TreeStart(sh, old) ==
    /\ tshape = sh
    /\ tpos = 1
    /\ tdoc = [n \in TreeNodes |-> NoDoc]
    /\ tlast = NoLast
    /\ present = old
    /\ tpanic = FALSE

TreeIdle == TreeStart([parts |-> Leaf, sub |-> NoSub, wide |-> TRUE], {})

TreeInit ==
    \E sh \in Shapes, old \in {{}, {StorePath(<<233>>)}} : TreeStart(sh, old)

\* jsonifyMsg up to the //// Parts comment: the result is set up and the
\* node's header values are decoded.
TreeEnter ==
    /\ UNCHANGED <<schedVars, storeVars, hdrVars, cliVars>>
    /\ ~tpanic /\ tpos <= Len(Steps) /\ Steps[tpos].ev = "enter"
    /\ \E h \in NodeHeaders(Steps[tpos].node) :
         tdoc' = [tdoc EXCEPT ![Steps[tpos].node] =
                    [NoDoc EXCEPT !.state = "open", !.msgid = h.msgid,
                                  !.id = OwnId(h.msgid),
                                  !.raw = h.v, !.hdr = HeaderLoop(h.v)]]
    /\ tpos' = tpos + 1
    /\ UNCHANGED <<tshape, tlast, present, tpanic>>

\* `return result` right after result.TextBody is set: a node whose text was
\* decoded never reaches file:.
ReturnsAfterTextNot(astext) == FALSE
ReturnsAfterText(astext) == astext

\* file: the attachment path is the hash of msg.Body as it is by now; the
\* store is asked only when the path holds no file.
FileStage(ts, tried, asksdet, ishtml, dc, storeres, exists) ==
    LET panic == tried /\ dc.panic
        astext == tried /\ ~dc.panic /\ ~dc.err
        tofile == ~ReturnsAfterText(astext) /\ ~(tried /\ dc.panic)
    IN [panic |-> panic,
        asksdet |-> asksdet,
        asksdec |-> tried /\ ~dc.panic /\ KnownCharset(dc.charset),
        asksstore |-> tofile /\ ~exists,
        tfail |-> ts.fail,
        tried |-> tried,
        charset |-> IF tried THEN dc.charset ELSE "",
        detector |-> IF tried THEN dc.detector ELSE "none",
        ishtml |-> ishtml,
        cerr |-> tried /\ dc.err,
        text |-> IF astext THEN dc.decoded ELSE <<>>,
        attach |-> IF tofile THEN StorePath(ts.body) ELSE <<>>,
        hashed |-> IF tofile THEN ts.body ELSE <<>>,
        exists |-> tofile /\ exists,
        storeres |-> IF tofile /\ ~exists THEN storeres ELSE "",
        wrote |-> IF tofile /\ ~exists /\ storeres = "saved" THEN ts.body ELSE NoFile]

\* //// Body charset: entered for a text part that is not an attachment and
\* whose transfer decoding did not fail; pm is mime.ParseMediaType(ctype).
CharsetStage(ts, pm, ctype, disp, det, decfail, storeres) ==
    LET tried == ~ts.fail /\ HasPrefixText(ctype) /\ ~ContainsAttachment(disp)
        mediatype == IF ~pm.err THEN pm.mediatype
                     ELSE IF ContainsHtml(ctype) THEN "text/html" ELSE "text/plain"
    IN FileStage(ts, tried, tried /\ (pm.err \/ pm.charset = ""),
                 ContainsHtml(mediatype),
                 decodeCharset(IF pm.err THEN "" ELSE pm.charset, ts.body,
                               ContainsHtml(mediatype), det, decfail),
                 storeres, StorePath(ts.body) \in present)

\* jsonifyMsg from //// Body to its return, for a node with the given header
\* fields and body; det, decfail and storeres are what the detector, the
\* decoder and the file system answer.
ResolveBody(cte, ctype, disp, body, det, decfail, storeres) ==
    CharsetStage(TransferStage(cte, body), ParseMediaType(ctype), ctype, disp,
                 det, decfail, storeres)

\* result.Parts = append(result.Parts, &partmsg)
PrependPart(parts, n) == <<n>> \o parts
AppendPart(parts, n) == Append(parts, n)

TreeBody ==
    /\ UNCHANGED <<schedVars, storeVars, hdrVars, cliVars>>
    /\ ~tpanic /\ tpos <= Len(Steps) /\ Steps[tpos].ev = "body"
    /\ \E inp \in Inputs, det \in Detections, decfail \in BOOLEAN,
          storeres \in StoreResults :
       \E st \in {Steps[tpos]},
          r \in {ResolveBody(inp.cte, inp.ctype, inp.disp, inp.body,
                             det, decfail, storeres)} :
         LET n == st.node
         IN \* an answer that is never asked for is not an input
            /\ r.asksdet \/ det = NotDetected
            /\ r.asksdec \/ ~decfail
            /\ r.asksstore \/ storeres = "saved"
            /\ tlast' = [node |-> n, cte |-> inp.cte, ctype |-> inp.ctype,
                         disp |-> inp.disp, body |-> inp.body, det |-> det, tfail |-> r.tfail,
                         tried |-> r.tried, charset |-> r.charset,
                         detector |-> r.detector, ishtml |-> r.ishtml, cerr |-> r.cerr,
                         hashed |-> r.hashed, exists |-> r.exists,
                         storeres |-> r.storeres, wrote |-> r.wrote]
            /\ tpanic' = r.panic
            /\ IF r.panic
               THEN UNCHANGED <<tdoc, present, tpos>>
               ELSE /\ tdoc' = [m \in TreeNodes |->
                                  IF m = n
                                  THEN [tdoc[n] EXCEPT !.state = "done",
                                          !.text = r.text, !.attach = r.attach]
                                  ELSE IF m = st.parent /\ st.role = "part"
                                  THEN [tdoc[m] EXCEPT !.parts = AppendPart(@, n)]
                                  ELSE IF m = st.parent /\ st.role = "sub"
                                  THEN [tdoc[m] EXCEPT !.sub = n]
                                  ELSE tdoc[m]]
                    /\ present' = IF r.wrote # NoFile THEN present \cup {r.attach}
                                  ELSE present
                    /\ tpos' = tpos + 1
    /\ UNCHANGED tshape

TreeNext ==
    \/ TreeEnter
    \/ TreeBody

\* jsonifyMsg has returned the Document of the whole message.
Returned == ~tpanic /\ tpos > Len(Steps)


\* --------------------------------------------------------- header helpers

\* Length of the longest header value given to a helper.
MaxLen == 4

\* Characters of the model, by code: "a", space, newline, "(", ")", ",", '"'.
DateChars == {97, 32, 10, 40, 41}
AddrChars == {97, 32, 44, 34}

\* Strings over an alphabet up to a length.
Strings(chars, len) == UNION {[1..n -> chars] : n \in 0..len}

\* \s of Go's regexp: tab, newline, form feed, carriage return, space.
IsSpace(c) == c \in {9, 10, 12, 13, 32}

\* The index of the first c in s from position i on (0: none).
RECURSIVE IndexFrom(_, _, _)
IndexFrom(s, c, i) ==
    IF i > Len(s) THEN 0 ELSE IF s[i] = c THEN i ELSE IndexFrom(s, c, i + 1)

\* commentRegex.ReplaceAllString(val, ""): each leftmost match of \([^\)]*\)
\* runs from a "(" to the first ")" after it.
RECURSIVE RemoveComments(_)
RemoveCommentAt(s, close) ==
    IF s[1] = 40 /\ close # 0
    THEN RemoveComments(SubSeq(s, close + 1, Len(s)))
    ELSE <<s[1]>> \o RemoveComments(Tail(s))
RemoveComments(s) ==
    IF s = <<>> THEN <<>> ELSE RemoveCommentAt(s, IndexFrom(s, 41, 2))

\* whitespaceRegex.ReplaceAllString(val, " "): each maximal run of \s becomes
\* one space.
RECURSIVE CollapseSpace(_)
CollapseSpace(s) ==
    IF s = <<>> THEN <<>>
    ELSE IF ~IsSpace(s[1]) THEN <<s[1]>> \o CollapseSpace(Tail(s))
    ELSE IF Len(s) >= 2 /\ IsSpace(s[2]) THEN CollapseSpace(Tail(s))
    ELSE <<32>> \o CollapseSpace(Tail(s))

\* strings.TrimSpace(val): unicode.IsSpace of a byte.
IsTrimmed(c) == c \in {9, 10, 11, 12, 13, 32, 133, 160}
RECURSIVE TrimLeft(_)
TrimLeft(s) == IF s # <<>> /\ IsTrimmed(s[1]) THEN TrimLeft(Tail(s)) ELSE s
RECURSIVE TrimRight(_)
TrimRight(s) ==
    IF s # <<>> /\ IsTrimmed(s[Len(s)]) THEN TrimRight(SubSeq(s, 1, Len(s) - 1)) ELSE s
TrimSpace(s) == TrimRight(TrimLeft(s))

\* stripSpaceAndComments(vals)
StripOne(val) == TrimSpace(CollapseSpace(RemoveComments(val)))
stripSpaceAndComments(vals) == [i \in 1..Len(vals) |-> StripOne(vals[i])]

\* The end of the leftmost match of \s*,\s* that begins at i, given that one
\* begins there: the spaces before the comma, the comma, the spaces after.
RECURSIVE SkipSpace(_, _)
SkipSpace(s, i) == IF i <= Len(s) /\ IsSpace(s[i]) THEN SkipSpace(s, i + 1) ELSE i

\* addrSplitRegex.Split(val, -1): the pieces of val between the matches, with
\* `beg` the start of the current piece and i the scanning position. A match
\* begins at i when only spaces lie between i and a comma.
RECURSIVE SplitFrom(_, _, _)
SplitAtComma(s, beg, i, comma) ==
    IF comma <= Len(s) /\ s[comma] = 44
    THEN <<SubSeq(s, beg, i - 1)>>
           \o SplitFrom(s, SkipSpace(s, comma + 1), SkipSpace(s, comma + 1))
    ELSE SplitFrom(s, beg, i + 1)
SplitFrom(s, beg, i) ==
    IF i > Len(s) THEN <<SubSeq(s, beg, Len(s))>>
    ELSE SplitAtComma(s, beg, i, SkipSpace(s, i))
Split(val) == SplitFrom(val, 1, 1)

\* splitAddrs(vals): the pieces of every value, appended in order.
RECURSIVE splitAddrs(_)
splitAddrs(vals) ==
    IF vals = <<>> THEN <<>> ELSE Split(vals[1]) \o splitAddrs(Tail(vals))

\* The lists of values a helper is called with: one value of up to MaxLen
\* characters, or two short values.
DateInputs ==
    {<<v>> : v \in Strings(DateChars, MaxLen)}
      \cup {<<v, w>> : v, w \in Strings(DateChars, 1)}
AddrInputs ==
    {<<v>> : v \in Strings(AddrChars, MaxLen)}
      \cup {<<v, w>> : v, w \in Strings(AddrChars, MaxLen \div 2)}

HdrStart(f, vals) ==
    /\ hfun = f
    /\ hin = vals
    /\ hout = <<>>
    /\ hpc = "call"

HdrIdle == HdrStart("none", <<>>)

HdrInit ==
    \/ \E vals \in DateInputs : HdrStart("date", vals)
    \/ \E vals \in AddrInputs : HdrStart("addr", vals)

\* result.Header["Date"] = stripSpaceAndComments(result.Header["Date"])
CallStrip ==
    /\ UNCHANGED <<schedVars, storeVars, treeVars, cliVars>>
    /\ hfun = "date" /\ hpc = "call"
    /\ hout' = stripSpaceAndComments(hin)
    /\ hpc' = "done"
    /\ UNCHANGED <<hfun, hin>>

\* result.Header["From"] = splitAddrs(result.Header["From"]), and the same
\* for To, Cc, Bcc, Return-Path and Delivered-To.
CallSplit ==
    /\ UNCHANGED <<schedVars, storeVars, treeVars, cliVars>>
    /\ hfun = "addr" /\ hpc = "call"
    /\ hout' = splitAddrs(hin)
    /\ hpc' = "done"
    /\ UNCHANGED <<hfun, hin>>

HdrNext ==
    \/ CallStrip
    \/ CallSplit

\* ------------------------------------------------- mode selection of main

\* Number of path arguments on the command line.
MaxArgs == 2

\* Path arguments of the model: "-" and two paths.
ArgNames == {"-", "a", "b"}
ArgLists == UNION {[1..n -> ArgNames] : n \in 0..MaxArgs}

CliStart(init, as, pc) ==
    /\ doInit = init
    /\ args = as
    /\ cpc = pc
    /\ cmode = "none"
    /\ indexCreated = 0
    /\ indexed = 0
    /\ handed = <<>>
    /\ did = <<>>

CliIdle == CliStart(FALSE, <<>>, "idle")

CliInit == \E init \in BOOLEAN, as \in ArgLists : CliStart(init, as, "start")

\* len(flag.Args()) == 0 || flag.Arg(0) == "-"
ReadsStdinOnlyArg(as) == as = <<>> \/ as = <<"-">>
ReadsStdin(as) == as = <<>> \/ as[1] = "-"

\* log.Fatalw in the stdin branch: os.Exit(1), whatever step would be next.
CliFatalwLogsOnly(next) == next
CliFatalw(next) == "fatal"

\* if *doInit { ... } else if len(flag.Args()) == 0 || flag.Arg(0) == "-"
\* { ... } else { ... }
CliDispatch ==
    /\ UNCHANGED <<schedVars, storeVars, treeVars, hdrVars>>
    /\ cpc = "start"
    /\ cmode' = IF doInit THEN "init" ELSE IF ReadsStdin(args) THEN "stdin" ELSE "batch"
    /\ cpc' = IF doInit THEN "init" ELSE IF ReadsStdin(args) THEN "process" ELSE "batch"
    /\ UNCHANGED <<doInit, args, indexCreated, indexed, handed, did>>

\* client.CreateIndex(*elasticIndex).BodyString(indexSettings).Do(ctx)
CliCreateIndex ==
    /\ UNCHANGED <<schedVars, storeVars, treeVars, hdrVars>>
    /\ cpc = "init"
    /\ \E ok \in BOOLEAN :
         /\ cpc' = IF ok THEN "exit" ELSE "fatal"
         /\ indexCreated' = IF ok THEN indexCreated + 1 ELSE indexCreated
    /\ UNCHANGED <<doInit, args, cmode, indexed, handed, did>>

\* jmsg, err := process(bufio.NewReader(os.Stdin), ...): an error is fatal,
\* and jsonifyMsg can panic.
CliProcess ==
    /\ UNCHANGED <<schedVars, storeVars, treeVars, hdrVars>>
    /\ cpc = "process"
    /\ \E res \in {"ok", "err", "panic"} :
         /\ cpc' = CASE res = "ok" -> "marshal"
                     [] res = "err" -> CliFatalw("marshal")
                     [] OTHER -> "panic"
         /\ did' = Append(did, [step |-> "process", ok |-> res = "ok"])
    /\ UNCHANGED <<doInit, args, cmode, indexCreated, indexed, handed>>

\* j, err := easyjson.Marshal(*jmsg)
CliMarshal ==
    /\ UNCHANGED <<schedVars, storeVars, treeVars, hdrVars>>
    /\ cpc = "marshal"
    /\ \E ok \in BOOLEAN :
         /\ cpc' = IF ok THEN "index" ELSE CliFatalw("index")
         /\ did' = Append(did, [step |-> "marshal", ok |-> ok])
    /\ UNCHANGED <<doInit, args, cmode, indexCreated, indexed, handed>>

\* client.Index()...Id(jmsg.Id).BodyString(string(j)).Do(ctx)
CliIndex ==
    /\ UNCHANGED <<schedVars, storeVars, treeVars, hdrVars>>
    /\ cpc = "index"
    /\ \E ok \in BOOLEAN :
         /\ cpc' = IF ok THEN "exit" ELSE CliFatalw("exit")
         /\ indexed' = IF ok THEN indexed + 1 ELSE indexed
         /\ did' = Append(did, [step |-> "index", ok |-> ok])
    /\ UNCHANGED <<doInit, args, cmode, indexCreated, handed>>

\* for _, filename := range flag.Args(): the batch loop takes up the next
\* argument (os.Stat of it can fail, which is fatal).
CliBatchArg ==
    /\ UNCHANGED <<schedVars, storeVars, treeVars, hdrVars>>
    /\ cpc = "batch" /\ Len(handed) < Len(args)
    /\ \E ok \in BOOLEAN :
         IF ok
         THEN /\ handed' = Append(handed, args[Len(handed) + 1])
              /\ UNCHANGED cpc
         ELSE /\ cpc' = "fatal"
              /\ UNCHANGED handed
    /\ UNCHANGED <<doInit, args, cmode, indexCreated, indexed, did>>

\* The batch loop is over: wg.Wait() and the return of main.
CliBatchEnd ==
    /\ UNCHANGED <<schedVars, storeVars, treeVars, hdrVars>>
    /\ cpc = "batch" /\ Len(handed) = Len(args)
    /\ cpc' = "exit"
    /\ UNCHANGED <<doInit, args, cmode, indexCreated, indexed, handed, did>>

CliNext ==
    \/ CliDispatch
    \/ CliCreateIndex
    \/ CliProcess
    \/ CliMarshal
    \/ CliIndex
    \/ CliBatchArg
    \/ CliBatchEnd

\* ---------------------------------------------------------- specifications

\* Batch mode: the store is left aside.
Init == SchedInit /\ StoreIdle /\ TreeIdle /\ HdrIdle /\ CliIdle

Spec == Init /\ [][SchedNext]_vars

\* The Go scheduler runs every runnable goroutine: main and each worker keep
\* taking steps while they have one to take.
FairSpec ==
    /\ Spec
    /\ WF_vars(MainStep)
    /\ \A w \in Workers : WF_vars(WorkerStep(w))

\* Worker 1 may stop anywhere, also inside a task; main and the other
\* workers keep taking steps.
StallSpec ==
    /\ Spec
    /\ WF_vars(MainStep)
    /\ \A w \in Workers \ {1} : WF_vars(WorkerStep(w))

\* Concurrent callers of the attachment store sharing one directory.
StoreSpecInit == SchedInit /\ StoreInit /\ TreeIdle /\ HdrIdle /\ CliIdle

StoreSpec == StoreSpecInit /\ [][StoreNext]_vars

\* One call of jsonifyMsg on a parsed message (process, single-threaded).
TreeSpecInit == SchedInit /\ StoreIdle /\ TreeInit /\ HdrIdle /\ CliIdle

TreeSpec == TreeSpecInit /\ [][TreeNext]_vars

\* One call of a header helper on the values of a header.
HdrSpecInit == SchedInit /\ StoreIdle /\ TreeIdle /\ HdrInit /\ CliIdle

HdrSpec == HdrSpecInit /\ [][HdrNext]_vars

\* The mode selection of one invocation of main.
CliSpecInit == SchedInit /\ StoreIdle /\ TreeIdle /\ HdrIdle /\ CliInit

CliSpec == CliSpecInit /\ [][CliNext]_vars

\* ------------------------------------------------- claims: batch scheduler

Enumerated == 1..added
NumCompleted == Cardinality({t \in Enumerated : completed[t] >= 1})

\* C1: in batch mode the sink is closed only after every enumerated task has
\* been attempted: once wg.Wait() has returned, the number of completed tasks
\* equals the number of enumerated tasks, each task was marked done once, and
\* no worker still holds a task it could submit (every worker is back at the
\* receive), so nothing is submitted to the sink after it is closed.
C1_CloseAfterAllTasks ==
    (mainpc \in {"close", "exit"} \/ sinkClosed) =>
        /\ NumCompleted = added
        /\ \A t \in Enumerated : completed[t] = 1
        /\ \A w \in Workers : wpc[w] = "recv" /\ wtask[w] = 0

C1_Witness ==
    /\ sinkClosed
    /\ added = MaxEntries
    /\ \E t \in Enumerated : submitted[t] = 1

\* C2: in batch mode, whichever tasks fail at file open, parse or serialize,
\* the run gets past wg.Wait() and closes the sink, as long as the run is not
\* ended by a fatal enumeration error or by a panic inside a task's transform.
C2_BatchCompletes ==
    [](~panicked /\ mainpc # "fatal") => <>sinkClosed

C2_Witness ==
    /\ sinkClosed
    /\ \E t \in Enumerated : outcome[t] = "fail"

\* C3: a task that fails at file open, parse or serialize contributes no
\* submission; no task is submitted more than once; and when the run ends
\* normally every enumerated task has been processed and has been submitted
\* exactly once if and only if its own open, parse and serialize succeeded.
C3_FailedTaskSkipped ==
    /\ \A t \in Tasks : submitted[t] <= 1
    /\ \A t \in Tasks : outcome[t] # "ok" => submitted[t] = 0
    /\ mainpc \in {"close", "exit"} =>
          \A t \in Enumerated :
             /\ outcome[t] \in {"ok", "fail"}
             /\ completed[t] = 1
             /\ (submitted[t] = 1) <=> (outcome[t] = "ok")

C3_Witness ==
    /\ mainpc = "exit"
    /\ \E t \in Enumerated : outcome[t] = "fail" /\ submitted[t] = 0
    /\ \E t \in Enumerated : outcome[t] = "ok" /\ submitted[t] = 1

\* ------------------------------------------------- claims: attachment store

\* Two distinct workers have stored the same payload, each having found the
\* final path missing, and both calls have returned.
RacedOn(w1, w2) ==
    /\ w1 # w2
    /\ store[w1].body = store[w2].body
    /\ store[w1].saw = "notexist" /\ store[w2].saw = "notexist"
    /\ store[w1].pc = "idle" /\ store[w2].pc = "idle"

C5_NoPartialFileVisible ==
    \A name \in FinalNames :
       files[name] # NoFile => StorePath(files[name]) = name

C5_Witness ==
    \E w1, w2 \in Workers :
       /\ w1 # w2
       /\ store[w1].pc = "write" /\ store[w1].n >= 1
       /\ files[TempName(w1, store[w1].path)] # store[w1].body
       /\ store[w2].err /\ store[w2].n >= 1 /\ store[w2].pc = "idle"
       /\ \E name \in FinalNames : files[name] # NoFile

\* C6: a store call made when the file of its payload is already present
\* (the second of two stores in sequence) returns the same content-derived
\* path, creates, writes and commits nothing, and reports no error; a call
\* that found the path missing and reported no error committed exactly once;
\* the returned path is a function of the bytes alone.
C6_SecondStoreSkipsWrite ==
    \A w \in Workers :
       /\ store[w].pc # "idle" \/ store[w].saw # "none" =>
             store[w].path = StorePath(store[w].body)
       /\ store[w].had =>
             /\ store[w].pc \in {"stat", "idle"}
             /\ store[w].commits = 0 /\ store[w].n = 0 /\ ~store[w].err
       /\ (store[w].pc = "idle" /\ store[w].saw = "notexist" /\ ~store[w].err) =>
             store[w].commits = 1

C6_Witness ==
    \E w \in Workers :
       /\ store[w].had /\ store[w].pc = "idle" /\ store[w].saw = "nil"
       /\ created[store[w].path] = 1
       /\ files[store[w].path] = store[w].body

\* ------------------------------------------------------------- claims C7-C10

\* The nodes jsonifyMsg visits in the message.
Visited == {Steps[i].node : i \in 1..Len(Steps)}

\* C7: every Document node has at most one of TextBody and the attachment
\* reference non-empty, whatever the decoding, charset and storage outcomes
\* at the node were.
C7_TextOrAttachment ==
    \A n \in TreeNodes : tdoc[n].text = <<>> \/ tdoc[n].attach = <<>>

\* A returned tree with a text node and an attachment node.
C7_Witness ==
    /\ Returned
    /\ \E n, m \in Visited :
         /\ tdoc[n].text # <<>> /\ tdoc[n].attach = <<>>
         /\ tdoc[m].attach # <<>> /\ tdoc[m].text = <<>>

\* C8: whatever soft failures occur (header word decoding, transfer decoding,
\* charset detection, unknown charset, charset decoding), the walk never
\* crashes, a header value that fails to decode keeps its raw value, and the
\* returned tree is complete: every visited node is done and holds its parts
\* and sub-message.
C8_SoftFailuresDegrade ==
    /\ ~tpanic
    /\ \A n \in TreeNodes :
         tdoc[n].state # "none" /\ DecodeHeader(tdoc[n].raw).err
           => tdoc[n].hdr = tdoc[n].raw
    /\ Returned =>
         \A n \in Visited :
           /\ tdoc[n].state = "done"
           /\ tdoc[n].parts = SelectSeq(tshape.parts[n], LAMBDA p : p # 0)
           /\ tdoc[n].sub = tshape.sub[n]

\* C9: the charset a text body is decoded with is the explicit charset
\* parameter when there is one, else the charset the detector found (the
\* html detector for an html subtype, the text detector otherwise), and
\* utf-8 only when the detector found none.
C9_CharsetResolutionOrder ==
    tlast.tried =>
      LET pm == ParseMediaType(tlast.ctype)
          explicit == IF pm.err THEN "" ELSE pm.charset
      IN /\ tlast.charset = ResolveCharsetAsDocumented(explicit, tlast.det).charset
         /\ tlast.detector = (IF explicit # "" THEN "none"
                              ELSE IF ContainsHtml(tlast.ctype) THEN "html" ELSE "text")

\* C10: when quoted-printable or base64 decoding of a node's body fails, the
\* charset stage is not entered for it, its TextBody is empty, and the bytes
\* hashed for the attachment path and written to the store are the node's
\* original body.
C10_TransferFailureKeepsOriginal ==
    tlast.node # 0 /\ tlast.tfail =>
      /\ ~tlast.tried
      /\ tdoc[tlast.node].text = <<>>
      /\ tlast.hashed = tlast.body
      /\ tdoc[tlast.node].attach = StorePath(tlast.body)
      /\ tlast.wrote # NoFile => tlast.wrote = tlast.body

\* A text part whose quoted-printable decoding failed after it had decoded
\* some bytes, and whose original body was written to the store.
C10_Witness ==
    /\ tlast.tfail /\ tlast.cte = "quoted-printable"
    /\ HasPrefixText(tlast.ctype) /\ ~ContainsAttachment(tlast.disp)
    /\ QPDecode(tlast.body).out # <<>>
    /\ tlast.wrote = tlast.body
    /\ tdoc[tlast.node].state = "done"

\* ------------------------------------------------------------ claims C11-C20

\* C11: a text part whose charset is not recognized or whose bytes fail to
\* decode ends with an attachment reference and an empty TextBody; a text
\* part whose decoding succeeds ends with the decoded text as TextBody, no
\* attachment reference and no store write.
C11_CharsetFailureToAttachment ==
    tlast.tried /\ ~tpanic =>
      IF tlast.cerr \/ tlast.charset \notin {"utf-8", "windows-1252"}
      THEN /\ tdoc[tlast.node].attach # <<>>
           /\ tdoc[tlast.node].text = <<>>
      ELSE /\ tdoc[tlast.node].text =
                DecodeBytes(tlast.charset, TransferStage(tlast.cte, tlast.body).body)
           /\ tdoc[tlast.node].attach = <<>>
           /\ tlast.wrote = NoFile /\ tlast.storeres = "" /\ ~tlast.exists

\* A text part whose explicit charset is not recognized and whose bytes went
\* to the attachment store.
C11_Witness ==
    /\ tlast.tried /\ tlast.charset = "x-unknown" /\ tlast.cerr
    /\ tdoc[tlast.node].state = "done"
    /\ tdoc[tlast.node].attach # <<>> /\ tlast.wrote # NoFile

\* The non-nil entries of a node's child parts, in their order.
NonNil(ps) == SelectSeq(ps, LAMBDA p : p # 0)

\* C12: in a returned tree, at every depth, the Parts of a node's Document
\* are the Documents of exactly its non-nil child parts in their original
\* order, each fully transformed, and SubMessage is present exactly when
\* the node has an embedded sub-message.
C12_TreeShapePreserved ==
    Returned =>
      \A n \in Visited :
        /\ tdoc[n].parts = NonNil(tshape.parts[n])
        /\ Len(tdoc[n].parts) = Cardinality({i \in 1..Len(tshape.parts[n]) :
                                               tshape.parts[n][i] # 0})
        /\ \A i \in 1..Len(tdoc[n].parts) : tdoc[tdoc[n].parts[i]].state = "done"
        /\ tdoc[n].sub = tshape.sub[n]
        /\ tdoc[n].sub # 0 => tdoc[tdoc[n].sub].state = "done"

\* A returned tree whose root has two parts around a nil entry.
C12_Witness ==
    /\ Returned
    /\ tshape.parts[1] = <<2, 0, 3>> /\ tdoc[1].parts = <<2, 3>>
    /\ tdoc[2].state = "done" /\ tdoc[3].state = "done"

\* The position a worker must be in just before it enters position p.
StepBefore(p) ==
    CASE p = "open" -> {"recv"}
      [] p = "process" -> {"open"}
      [] p = "marshal" -> {"process"}
      [] p = "add" -> {"marshal"}
      [] p = "done" -> {"open", "process", "marshal", "add"}
      [] OTHER -> {"done"}

\* One step keeps the order open, parse and transform, serialize, submit
\* for the task each worker holds.
PipelineStep ==
    /\ \A w \in Workers :
         /\ wpc'[w] # wpc[w] => wpc[w] \in StepBefore(wpc'[w])
         /\ wtask'[w] # wtask[w] => wpc[w] \in {"recv", "done"}
    /\ \A t \in Tasks :
         submitted'[t] # submitted[t] =>
           \E w \in Workers : wtask[w] = t /\ wpc[w] = "add" /\ outcome[t] = "ok"

\* C13: for each task the steps open, parse and transform, serialize and
\* submit happen in that order on the one worker that received it, and the
\* submit happens only after the transform returned the whole Document and
\* it was serialized; different tasks are not ordered.
C13_PipelineSequential ==
    /\ [](\A w1, w2 \in Workers :
            w1 # w2 /\ wtask[w1] # 0 => wtask[w1] # wtask[w2])
    /\ [][PipelineStep]_vars

\* The second task has been submitted while the first, received by another
\* worker, has not yet been opened.
C13_Witness ==
    /\ submitted[2] = 1 /\ submitted[1] = 0
    /\ \E w \in Workers : wtask[w] = 1 /\ wpc[w] = "open"

\* The nesting depth of parentheses after each prefix of s.
RECURSIVE Depth(_, _)
Depth(s, i) ==
    IF i = 0 THEN 0
    ELSE Depth(s, i - 1) + (IF s[i] = 40 THEN 1 ELSE IF s[i] = 41 THEN -1 ELSE 0)

\* Every parenthesis of s belongs to a comment: they are balanced.
Balanced(s) == Depth(s, Len(s)) = 0 /\ \A i \in 1..Len(s) : Depth(s, i) >= 0

\* C14: stripSpaceAndComments returns, for every value, a value from which
\* every parenthesized comment has been removed (when all parentheses of the
\* value belong to comments, none is left), in which white space occurs only
\* as single spaces between other characters, and which has no leading or
\* trailing space.
C14_DateStripped ==
    hfun = "date" /\ hpc = "done" =>
      /\ Len(hout) = Len(hin)
      /\ \A k \in 1..Len(hout) :
           /\ Balanced(hin[k]) => \A i \in 1..Len(hout[k]) : hout[k][i] \notin {40, 41}
           /\ \A i \in 1..Len(hout[k]) :
                IsSpace(hout[k][i]) =>
                  /\ hout[k][i] = 32
                  /\ 1 < i /\ i < Len(hout[k])
                  /\ ~IsSpace(hout[k][i + 1])

\* The number of occurrences of character c in s.
Count(s, c) == Cardinality({i \in 1..Len(s) : s[i] = c})

\* All the strings of a list, one after the other.
RECURSIVE Flatten(_)
Flatten(l) == IF l = <<>> THEN <<>> ELSE l[1] \o Flatten(Tail(l))

\* s without its commas and white space.
Solid(s) == SelectSeq(s, LAMBDA c : c # 44 /\ ~IsSpace(c))

\* C15: splitAddrs breaks each value at each comma together with the white
\* space around it and yields the pieces in their order (one more piece than
\* commas per value, no comma left, nothing else lost, no piece of a value
\* starting or ending with the white space of a break), and it never splits
\* inside an address entry: when the quotes of every value are paired, the
\* quotes of every piece are paired.
C15_AddrsSplit ==
    hfun = "addr" /\ hpc = "done" =>
      /\ Len(hout) = Len(hin) + Count(Flatten(hin), 44)
      /\ \A k \in 1..Len(hout) : Count(hout[k], 44) = 0
      /\ Solid(Flatten(hout)) = Solid(Flatten(hin))
      /\ Len(hin) = 1 =>
           \A k \in 1..Len(hout) :
             /\ k > 1 /\ hout[k] # <<>> => ~IsSpace(hout[k][1])
             /\ k < Len(hout) /\ hout[k] # <<>> => ~IsSpace(hout[k][Len(hout[k])])
      /\ (\A v \in 1..Len(hin) : Count(hin[v], 34) % 2 = 0)
           => \A k \in 1..Len(hout) : Count(hout[k], 34) % 2 = 0

\* C16: in the tree built for a message only the top-level Document carries
\* an identifier, the message's own Message-Id (empty when it has none); the
\* Documents of parts and sub-messages have an empty identifier.
C16_IdOnlyAtTop ==
    \A n \in Visited :
      tdoc[n].state # "none" =>
        tdoc[n].id = (IF n = 1 THEN tdoc[n].msgid ELSE <<>>)

\* C17: exactly one mode runs per invocation: with init set the index is
\* created and nothing is ingested; otherwise one message is read from
\* standard input and submitted once, synchronously, exactly when there are
\* no path arguments or the single argument "-"; otherwise batch ingestion
\* runs over all the given paths.
C17_OneModePerRun ==
    /\ cmode # "none" =>
         cmode = (IF doInit THEN "init"
                  ELSE IF ReadsStdinOnlyArg(args) THEN "stdin" ELSE "batch")
    /\ cmode = "init" => indexed = 0 /\ handed = <<>>
    /\ cmode = "stdin" => indexCreated = 0 /\ handed = <<>> /\ indexed <= 1
    /\ cmode = "batch" => indexCreated = 0 /\ indexed = 0
    /\ cpc = "exit" =>
         /\ cmode = "init" => indexCreated = 1
         /\ cmode = "stdin" => indexed = 1
         /\ cmode = "batch" => handed = args

\* C18: when the run ends no worker is left blocked at the receive from the
\* task queue: the queue was closed after the last task and every worker
\* has left its loop.
C18_WorkersTerminate ==
    mainpc = "exit" => \A w \in Workers : wpc[w] # "recv"

\* C19: when one worker (worker 1) stalls inside a task, every enumerated
\* task other than the one it holds is still received and brought to its
\* end by the remaining workers: unless a fatal enumeration error or a panic
\* ends the process, the run settles in states where each task enumerated
\* so far is either completed or the task worker 1 holds.
C19_StallDoesNotBlockOthers ==
    <>[](\/ panicked
         \/ mainpc = "fatal"
         \/ \A t \in 1..added : completed[t] = 1 \/ wtask[1] = t)

\* Worker 1 sits inside the first task while the two tasks enumerated after
\* it have been completed.
C19_Witness ==
    /\ wtask[1] = 1 /\ wpc[1] = "process"
    /\ completed[2] = 1 /\ completed[3] = 1

\* C20: in batch mode tasks are enqueued for the regular files met among the
\* given paths and under the directories traversed, and no task is ever
\* enqueued for an entry that is not a regular file.
C20_OnlyRegularFilesEnqueued ==
    ~irregular

\* ------------------------------------------------------------ claims C21-C27

\* C21: once a path could not be stat'ed or a directory walk reported an
\* error, the run has stopped: main is at the fatal exit, not at the wait or
\* the close of the sink, the sink was not closed, and no step enqueues a
\* task any more.
C21_EnumErrorStopsRun ==
    /\ [](enumErr => mainpc = "fatal" /\ ~sinkClosed)
    /\ [][enumErr => added' = added /\ mainpc' = "fatal"]_vars

\* The enumeration failed after a task was enqueued, while a worker still
\* holds a task.
C21_Witness ==
    /\ enumErr
    /\ added >= 1
    /\ \E w \in Workers : wpc[w] \in {"open", "process", "marshal", "add", "done"}

\* C22: a store call whose create, write or commit failed reports the
\* failure for itself only: the call has returned (at most its deferred close
\* is left), the path it recorded is the path of its body, it made no file
\* appear, the process has not crashed so that the other callers go on, and
\* no step of a failed call changes the file at its final path.
C22_StoreFailureIsLocal ==
    /\ [](\A w \in Workers :
            store[w].err =>
              /\ ~crashed
              /\ store[w].pc \in {"idle", "close"}
              /\ store[w].path = StorePath(store[w].body)
              /\ store[w].commits = 0)
    /\ [][\A w \in Workers :
            store'[w] # store[w] /\ store'[w].err =>
              files'[store'[w].path] = files[store'[w].path]]_vars

\* A call failed while writing and has returned with nothing at its final
\* path, and another caller has published a file since.
C22_Witness ==
    \E w, v \in Workers :
      /\ w # v
      /\ store[w].err /\ store[w].pc = "idle" /\ store[w].n >= 1
      /\ files[store[w].path] = NoFile
      /\ store[v].commits = 1 /\ store[v].pc = "idle"

\* C23: in stdin mode a failed parse, serialization or submission is the last
\* step the process runs and leaves it terminated; a submission is attempted
\* only after a successful parse and a successful serialization, and at most
\* one submission is made.
C23_StdinFailureTerminates ==
    /\ \A i \in 1..Len(did) :
         /\ ~did[i].ok => i = Len(did) /\ cpc \in {"fatal", "panic"}
         /\ did[i].step = "index" =>
               /\ i = 3
               /\ did[1] = [step |-> "process", ok |-> TRUE]
               /\ did[2] = [step |-> "marshal", ok |-> TRUE]
    /\ Cardinality({i \in 1..Len(did) : did[i].step = "index"}) <= 1
    /\ indexed <= 1
    /\ did # <<>> => cmode = "stdin"

\* The message was parsed, its serialization failed, and the process is gone
\* with no submission made.
C23_Witness ==
    /\ cmode = "stdin"
    /\ did = <<[step |-> "process", ok |-> TRUE], [step |-> "marshal", ok |-> FALSE]>>
    /\ cpc = "fatal"
    /\ indexed = 0

\* The Content-Type values of the model that do not begin with "text", and
\* its Content-Disposition value of an attachment.
NonTextTypes == {"", "image/png"}
AttachmentDisposition == "attachment; filename=a"

\* C24: a node whose Content-Type does not begin with "text", or whose
\* Content-Disposition marks it as an attachment, did not enter the charset
\* stage: its TextBody is empty and its own body, as the transfer stage left
\* it, went to the attachment path, whether or not the node has child parts
\* or a sub-message; and a node has a TextBody only after the charset stage.
C24_TextOnlyThroughCharsetStage ==
    ~tpanic /\ tlast.node # 0 =>
      LET doc == tdoc[tlast.node]
      IN /\ tlast.ctype \in NonTextTypes \/ tlast.disp = AttachmentDisposition =>
              /\ ~tlast.tried
              /\ doc.text = <<>>
              /\ doc.attach = StorePath(TransferStage(tlast.cte, tlast.body).body)
         /\ doc.text # <<>> => tlast.tried

\* A container node (it has child parts) with a non-text Content-Type had its
\* own body resolved through the attachment path.
C24_Witness ==
    /\ ~tpanic /\ tlast.node = 1
    /\ tshape.parts[1] # <<>>
    /\ tlast.ctype = "image/png"
    /\ tdoc[1].state = "done"
    /\ tdoc[1].text = <<>> /\ tdoc[1].attach # <<>>
    /\ tdoc[1].parts # <<>>

\* The workers that hold task t, and the task on the channel: the task main
\* is blocked sending (0: none).
Holders(t) == {w \in Workers : wtask[w] = t}
InFlight == IF mainpc = "send" THEN added ELSE 0

\* C25: every enumerated task was added to the wait group once, before its
\* send: the counter equals the number of enumerated tasks not yet done and
\* is never negative. A task is on the channel, or held by exactly one
\* worker, or done exactly once; and only the worker holding a task marks it
\* done.
C25_OneAddOneReceiveOneDone ==
    /\ [](/\ wg >= 0
          /\ wg = added - NumCompleted
          /\ NumCompleted <= added
          /\ \A t \in Tasks :
                /\ completed[t] <= 1
                /\ t > added => completed[t] = 0 /\ Holders(t) = {}
                /\ t <= added =>
                      Cardinality(Holders(t)) =
                        IF completed[t] = 1 \/ t = InFlight THEN 0 ELSE 1)
    /\ [][\A t \in Tasks :
            completed'[t] # completed[t] =>
              \E w \in Workers : wtask[w] = t /\ wpc[w] = "done" /\ wpc'[w] = "recv"]_vars

\* One task is done, one is held by a worker and one is on the channel.
C25_Witness ==
    /\ added = 3 /\ InFlight = 3
    /\ completed[1] = 1
    /\ Cardinality(Holders(2)) = 1
    /\ wg = 2

\* The workers that are processing a task.
Busy == {w \in Workers : wpc[w] # "recv"}

\* C26: the tasks enumerated and not yet done are the tasks the busy workers
\* hold plus the one main is blocked sending, so they never exceed the pool
\* size plus one; and while every worker is busy the enumerator stays blocked
\* at its send and enumerates nothing.
C26_OutstandingBounded ==
    /\ [](/\ Cardinality(Busy) <= NumWorkers
          /\ wg = Cardinality(Busy) + (IF mainpc = "send" THEN 1 ELSE 0)
          /\ wg <= NumWorkers + 1)
    /\ [][mainpc = "send" /\ Busy = Workers =>
            mainpc' = "send" /\ added' = added]_vars

\* Every worker is busy and main is blocked at the send of one more task.
C26_Witness ==
    /\ Busy = Workers
    /\ mainpc = "send"
    /\ wg = NumWorkers + 1

\* The n bytes base64 decoding reported for a body.
Reported(body) ==
    SubSeq(Base64Decode(normalizeForBase64(body)).out, 1,
           Base64Decode(normalizeForBase64(body)).n)

\* C27: when the base64 body of a node decoded without error, what is passed
\* on is exactly the n bytes the decoder reported: the attachment store
\* hashes and writes those bytes, and a TextBody is the charset decoding of
\* those bytes, with no trailing bytes of the DecodedLen buffer.
C27_Base64PassesDecodedBytes ==
    ~tpanic /\ tlast.node # 0 /\ tlast.cte = "base64" /\ ~tlast.tfail =>
      IF tdoc[tlast.node].attach # <<>>
      THEN /\ tlast.hashed = Reported(tlast.body)
           /\ tdoc[tlast.node].attach = StorePath(Reported(tlast.body))
      ELSE tdoc[tlast.node].text = DecodeBytes(tlast.charset, Reported(tlast.body))

====
